---- MODULE Spec2Model ----
(***************************************************************************)
(* Model of the Serializable utility (serialize / deserialize) and of      *)
(* UiUtils.deepCopy.  A JavaScript object graph is a heap of objects       *)
(* addressed by identity; the two traversals are the recursive functions   *)
(* of the source, with their seen / references tables threaded through.    *)
(***************************************************************************)
EXTENDS Integers, Sequences, FiniteSets, TLC

\* ---------------------------------------------------------------- bounds
MaxObjs == 2          \* objects in the caller's graph
MaxLevel == 2         \* largest finite level handed to deepCopy
DepthObjs == 4        \* objects in the plain-record graphs of SpecDepth
DepthLevel == 3       \* largest level handed to deepCopy in SpecDepth
MaxRefId == 2         \* largest id number a handwritten payload refers to

\* The engine's call-stack limit: a recursion deeper than this ends in a
\* RangeError.  Every traversal guarded by a seen table stays far below it.
StackLimit == 3 * (MaxObjs + DepthObjs) + 6

\* ---------------------------------------------------------------- values
\* A JavaScript value.  Objects are held by reference (t = "ref", x = the
\* identity).  A string is modelled as a stem s and a number x: the id
\* "Map_0" is Str("Map", 0), the ISO-8601 text of instant i is Str("ISO", i)
\* and a plain name is Str(name, -1).
Num(n) == [t |-> "num", x |-> n, s |-> ""]
Str(stem, n) == [t |-> "str", x |-> n, s |-> stem]
Bool(b) == [t |-> "bool", x |-> IF b THEN 1 ELSE 0, s |-> ""]
Ref(o) == [t |-> "ref", x |-> o, s |-> ""]
Undefined == [t |-> "undefined", x |-> 0, s |-> ""]
Func(name) == [t |-> "function", x |-> 0, s |-> name]

\* An object: its constructor name, its own enumerable properties in
\* enumeration order, and the internal slots of Set, Map and Date.
Obj(kind, props, items, entries, time) ==
    [kind |-> kind, props |-> props, items |-> items,
     entries |-> entries, time |-> time]

BuiltIns == {"Date", "Set", "Map", "Array"}
UserClasses == {"ClassA", "ClassB"}
\* classes whose instances carry the SERIALIZED_CLASS marker
Decorated == {"ClassA"}
Kinds == BuiltIns \cup UserClasses \cup {"Object"}

isObject(v) == v.t = "ref"

\* getClassName: drops the 'bound ' prefix of a proxied constructor name
getClassName(constructorName) ==
    CASE constructorName = "bound ClassA" -> "ClassA"
      [] constructorName = "bound ClassB" -> "ClassB"
      [] OTHER -> constructorName

\* What reading a name on a fresh shell of a class yields without any own
\* property: the members of the class's prototype, and under every
\* prototype those of Object.prototype (toString stands for them).
ProtoMember(kind, key) ==
    IF kind \in UserClasses /\ key = "incr" THEN Func("incr")
    ELSE IF kind = "Array" /\ key = "length" THEN Num(0)
    ELSE IF key = "toString" THEN Func("toString")
    ELSE Undefined

\* ------------------------------------------------------- sequence helpers
RECURSIVE SeqFilterKeys(_, _)
\* the pairs of a property list whose keys are not in a set
SeqFilterKeys(ps, drop) ==
    IF ps = <<>> THEN <<>>
    ELSE IF Head(ps)[1] \in drop THEN SeqFilterKeys(Tail(ps), drop)
    ELSE <<Head(ps)>> \o SeqFilterKeys(Tail(ps), drop)

HasKey(ps, key) == \E i \in 1..Len(ps) : ps[i][1] = key

GetKey(ps, key) ==
    IF HasKey(ps, key)
    THEN ps[CHOOSE i \in 1..Len(ps) : ps[i][1] = key][2]
    ELSE Undefined

\* obj[key] = value on a property list
SetKey(ps, key, val) ==
    IF HasKey(ps, key)
    THEN [i \in 1..Len(ps) |-> IF ps[i][1] = key THEN <<key, val>> ELSE ps[i]]
    ELSE Append(ps, <<key, val>>)

\* ------------------------------------------------------------------ state
VARIABLES
    heap,       \* the caller's object graph: identity -> object
    classMap,   \* Serializable.classMap: the registered class names
    text,       \* outcome of serialize: status and the JSON text
    trace,      \* what the encoder did, in order: <<event, identity>>
    result,     \* outcome of deserialize: status, value and the new objects
    copied      \* outcome of deepCopy: level, value and the new objects

vars == <<heap, classMap, text, trace, result, copied>>

Objs == 1..MaxObjs
\* the value handed to serialize and deepCopy
root == Ref(1)

\* ------------------------------------------------------------- JSON trees
\* A node of the tree that serializeObject builds and of the JSON text:
\* a leaf value, an object with fields in enumeration order, or an array.
Leaf(v) == [t |-> "val", v |-> v, f |-> <<>>, e |-> <<>>]
JObj(fields) == [t |-> "obj", v |-> Undefined, f |-> fields, e |-> <<>>]
JArr(elems) == [t |-> "arr", v |-> Undefined, f |-> <<>>, e |-> elems]

IndexNames == <<"0", "1", "2", "3">>
IsIndexKey(key) == \E i \in 1..Len(IndexNames) : IndexNames[i] = key

RECURSIVE IndexProps(_)
\* the integer-keyed properties, which every enumeration lists first
IndexProps(ps) ==
    IF ps = <<>> THEN <<>>
    ELSE IF IsIndexKey(Head(ps)[1]) THEN <<Head(ps)>> \o IndexProps(Tail(ps))
    ELSE IndexProps(Tail(ps))

RECURSIVE NamedProps(_)
NamedProps(ps) ==
    IF ps = <<>> THEN <<>>
    ELSE IF IsIndexKey(Head(ps)[1]) THEN NamedProps(Tail(ps))
    ELSE <<Head(ps)>> \o NamedProps(Tail(ps))

\* ---------------------------------------------------------- seen tables
\* A Map keyed by identity, as a list of <<key, value>> in insertion order.
SeenHas(seen, o) == \E i \in 1..Len(seen) : seen[i][1] = o
\* faulty variant: hands back the original instead of what the table holds
SeenGet_original(seen, o) == Ref(o)
SeenGet(seen, o) == seen[CHOOSE i \in 1..Len(seen) : seen[i][1] = o][2]

\* ---------------------------------------------------------------- encoder
EncState0 == [seen |-> <<>>, log |-> <<>>, err |-> "none"]
Fail(st, e) == [st EXCEPT !.err = e]
Note(st, ev, o) == [st EXCEPT !.log = Append(@, <<ev, o>>)]

\* The id of a newly met object: its class name and the size of seen.
\* faulty variant: the number does not grow with the table
AssignId_perClass(className, seen) == Str(className, 0)
AssignId(className, seen) == Str(className, Len(seen))

RECURSIVE serializeObject(_, _, _)
RECURSIVE serializeList(_, _, _)

\* the elements of a list, each passed through serializeObject in order
serializeList(vals, st, depth) ==
    IF vals = <<>> THEN [outs |-> <<>>, st |-> st]
    ELSE LET h == serializeObject(Head(vals), st, depth)
             r == serializeList(Tail(vals), h.st, depth)
         IN [outs |-> <<h.out>> \o r.outs, st |-> r.st]

serializeObject(instance, st, depth) ==
    IF st.err # "none" THEN [out |-> Leaf(Undefined), st |-> st]
    ELSE IF depth > StackLimit
    THEN [out |-> Leaf(Undefined), st |-> Fail(st, "RangeError")]
    ELSE IF ~isObject(instance) THEN [out |-> Leaf(instance), st |-> st]
    ELSE
    LET o == instance.x IN
    IF SeenHas(st.seen, o)
    THEN [out |-> JObj(<< <<"__ref", Leaf(SeenGet(st.seen, o))>> >>),
          st |-> Note(st, "ref", o)]
    ELSE
    LET className == getClassName(heap[o].kind)
        id == AssignId(className, st.seen)
        st1 == Note([st EXCEPT !.seen = Append(@, <<o, id>>)], "id", o)
        meta == << <<"__class", Leaf(Str(className, -1))>>, <<"__id", Leaf(id)>> >>
        mark == IF heap[o].kind \in Decorated
                THEN << <<"SERIALIZED_CLASS", Leaf(Bool(TRUE))>> >> ELSE <<>>
    IN
    IF className \notin classMap THEN [out |-> Leaf(instance), st |-> st1]
    ELSE
    LET st2 == Note(st1, "node", o) IN
    CASE heap[o].kind = "Set" ->
           LET r == serializeList(heap[o].items, st2, depth + 1)
           IN [out |-> JObj(meta \o << <<"values", JArr(r.outs)>>,
                                       <<"__set", Leaf(Bool(TRUE))>> >> \o mark),
               st |-> r.st]
      [] heap[o].kind = "Map" ->
           LET es == heap[o].entries
               flat == [i \in 1..(2 * Len(es)) |-> es[(i + 1) \div 2][2 - (i % 2)]]
               r == serializeList(flat, st2, depth + 1)
               pairs == [i \in 1..Len(es) |->
                           JArr(<<r.outs[2 * i - 1], r.outs[2 * i]>>)]
           IN [out |-> JObj(meta \o << <<"entries", JArr(pairs)>>,
                                       <<"__map", Leaf(Bool(TRUE))>> >> \o mark),
               st |-> r.st]
      [] heap[o].kind = "Date" ->
           [out |-> JObj(meta \o << <<"__date", Leaf(Bool(TRUE))>>,
                                    <<"date", Leaf(Str("ISO", heap[o].time))>> >>
                              \o mark),
            st |-> st2]
      [] OTHER ->
           LET ps == IndexProps(heap[o].props) \o NamedProps(heap[o].props)
               r == serializeList([i \in 1..Len(ps) |-> ps[i][2]], st2, depth + 1)
               own == [i \in 1..Len(ps) |-> <<ps[i][1], r.outs[i]>>]
           IN [out |-> JObj(IndexProps(own) \o meta \o NamedProps(own) \o mark),
               st |-> r.st]

\* --------------------------------------------------------- JSON.stringify
\* JSON.stringify as serialize calls it on the tree of serializeObject.  A
\* leaf that is still a live object (one serializeObject returned unchanged)
\* is written the standard way: a Date as its ISO text, an array as its
\* elements, anything else as its own enumerable properties (a Set or a Map
\* has none), and a value met again among its own ancestors is a TypeError.
RECURSIVE stringify(_, _, _, _)
RECURSIVE stringifyList(_, _, _, _)
RECURSIVE DropUndefined(_)

\* a property whose value is undefined is left out of the text
DropUndefined(fs) ==
    IF fs = <<>> THEN <<>>
    ELSE IF Head(fs)[2] = Leaf(Undefined) THEN DropUndefined(Tail(fs))
    ELSE <<Head(fs)>> \o DropUndefined(Tail(fs))

stringifyList(trees, anc, st, depth) ==
    IF trees = <<>> THEN [outs |-> <<>>, st |-> st]
    ELSE LET h == stringify(Head(trees), anc, st, depth)
             r == stringifyList(Tail(trees), anc, h.st, depth)
         IN [outs |-> <<h.out>> \o r.outs, st |-> r.st]

stringify(tree, anc, st, depth) ==
    IF st.err # "none" THEN [out |-> Leaf(Undefined), st |-> st]
    ELSE IF depth > StackLimit
    THEN [out |-> Leaf(Undefined), st |-> Fail(st, "RangeError")]
    ELSE
    CASE tree.t = "obj" ->
           LET r == stringifyList([i \in 1..Len(tree.f) |-> tree.f[i][2]],
                                  anc, st, depth + 1)
           IN [out |-> JObj(DropUndefined(
                          [i \in 1..Len(tree.f) |-> <<tree.f[i][1], r.outs[i]>>])),
               st |-> r.st]
      [] tree.t = "arr" ->
           LET r == stringifyList(tree.e, anc, st, depth + 1)
           IN [out |-> JArr(r.outs), st |-> r.st]
      [] tree.t = "val" /\ ~isObject(tree.v) -> [out |-> tree, st |-> st]
      [] OTHER ->
           LET o == tree.v.x
               st1 == Note(st, "raw", o)
               ps == IndexProps(heap[o].props) \o NamedProps(heap[o].props)
               kids == [i \in 1..Len(ps) |-> Leaf(ps[i][2])]
               r == stringifyList(kids, anc \cup {o}, st1, depth + 1)
           IN IF o \in anc
              THEN [out |-> Leaf(Undefined), st |-> Fail(st, "TypeError")]
              ELSE IF heap[o].kind = "Date"
              THEN [out |-> Leaf(Str("ISO", heap[o].time)), st |-> st1]
              ELSE IF heap[o].kind = "Array"
              THEN [out |-> JArr(r.outs), st |-> r.st]
              ELSE [out |-> JObj(DropUndefined(
                             [i \in 1..Len(ps) |-> <<ps[i][1], r.outs[i]>>])),
                    st |-> r.st]

\* serialize(instance): a fresh seen table, serializeObject, JSON.stringify
serialize(instance) ==
    LET enc == serializeObject(instance, EncState0, 0)
        str == stringify(enc.out, {}, enc.st, 0)
    IN [status |-> IF str.st.err = "none" THEN "ok" ELSE str.st.err,
        json |-> IF str.st.err = "none" THEN str.out ELSE Leaf(Undefined),
        seen |-> str.st.seen,
        log |-> str.st.log]

\* ---------------------------------------------------------------- decoder
\* The decoder's state: the references table (a Map in insertion order), the
\* objects it has allocated (the i-th has identity Len(heap) + i), the number
\* of references.get calls that found nothing, and the pending exception.
DecState0 == [refs |-> <<>>, objs |-> <<>>, miss |-> 0, err |-> "none"]
NewId(st) == Len(heap) + Len(st.objs) + 1
Alloc(st, obj) == [st EXCEPT !.objs = Append(@, obj)]

\* faulty variant: the shell is never entered into the table
RefsSet_dropped(refs, id, val) == refs
\* references.set(id, value): a later set of the same key replaces it
RefsSet(refs, id, val) ==
    IF \E i \in 1..Len(refs) : refs[i][1] = id
    THEN [i \in 1..Len(refs) |-> IF refs[i][1] = id THEN <<id, val>> ELSE refs[i]]
    ELSE Append(refs, <<id, val>>)
RefsHas(refs, id) == \E i \in 1..Len(refs) : refs[i][1] = id
RefsGet(refs, id) ==
    IF RefsHas(refs, id)
    THEN refs[CHOOSE i \in 1..Len(refs) : refs[i][1] = id][2]
    ELSE Undefined

\* the own properties of a parsed JSON value, in enumeration order
FieldsOf(tree) ==
    IF tree.t = "obj" THEN tree.f
    ELSE IF tree.t = "arr"
    THEN [i \in 1..Len(tree.e) |-> <<IndexNames[i], tree.e[i]>>]
    ELSE <<>>

\* jsonObject[key]
Get(tree, key) ==
    IF HasKey(FieldsOf(tree), key)
    THEN FieldsOf(tree)[CHOOSE i \in 1..Len(FieldsOf(tree)) :
                           FieldsOf(tree)[i][1] = key][2]
    ELSE IF tree.t = "arr" /\ key = "length" THEN Leaf(Num(Len(tree.e)))
    ELSE Leaf(Undefined)

Truthy(tree) ==
    \/ tree.t \in {"obj", "arr"}
    \/ /\ tree.t = "val"
       /\ \/ tree.v.t = "num" /\ tree.v.x # 0
          \/ tree.v.t = "bool" /\ tree.v.x = 1
          \/ tree.v.t = "str" /\ ~(tree.v.s = "" /\ tree.v.x = -1)
          \/ tree.v.t \in {"ref", "function"}

\* faulty variant: any type tag counts as registered
Registered_any(tree) == tree.t = "val" /\ tree.v.t = "str"
\* classMap.get(className) finds a constructor
Registered(tree) ==
    /\ tree.t = "val" /\ tree.v.t = "str" /\ tree.v.x = -1
    /\ tree.v.s \in classMap

\* the instant of new Date(x); -1 stands for the invalid date
NaNTime == 0 - 1
ParseDate(tree) ==
    IF tree.t = "val" /\ tree.v.t = "str" /\ tree.v.s = "ISO" THEN tree.v.x
    ELSE IF tree.t = "val" /\ tree.v.t = "num" THEN tree.v.x
    ELSE NaNTime

\* instance[key] on an allocated object: own property, else the prototype's
\* faulty variant: looks at the own properties only
Read_ownOnly(obj, key) ==
    IF HasKey(obj.props, key) THEN GetKey(obj.props, key) ELSE Undefined
Read(obj, key) ==
    IF HasKey(obj.props, key) THEN GetKey(obj.props, key)
    ELSE ProtoMember(obj.kind, key)

SetAdd(items, v) ==
    IF \E i \in 1..Len(items) : items[i] = v THEN items ELSE Append(items, v)

MapSet(entries, k, v) ==
    IF \E i \in 1..Len(entries) : entries[i][1] = k
    THEN [i \in 1..Len(entries) |->
            IF entries[i][1] = k THEN <<k, v>> ELSE entries[i]]
    ELSE Append(entries, <<k, v>>)

RECURSIVE deserializeObject(_, _, _)
RECURSIVE decodeProps(_, _, _, _, _)
RECURSIVE decodeValues(_, _, _, _, _)
RECURSIVE decodeEntries(_, _, _, _, _)

\* the for-in loops of deserializeObject over the keys of jsonObject; with
\* guarded, a key the shell already yields a value for is skipped
decodeProps(fields, idx, guarded, st, depth) ==
    IF fields = <<>> \/ st.err # "none" THEN st
    ELSE
    LET key == Head(fields)[1]
        child == Head(fields)[2]
    IN IF key \in {"__class", "__id"}
       THEN decodeProps(Tail(fields), idx, guarded, st, depth)
       ELSE IF guarded /\ Read(st.objs[idx], key) # Undefined
       THEN decodeProps(Tail(fields), idx, guarded, st, depth)
       ELSE LET d == deserializeObject(child, st, depth)
                st1 == [d.st EXCEPT !.objs[idx].props = SetKey(@, key, d.val)]
            IN decodeProps(Tail(fields), idx, guarded, st1, depth)

\* for (const value of jsonObject.values) instance.add(...)
decodeValues(elems, idx, isSet, st, depth) ==
    IF elems = <<>> \/ st.err # "none" THEN st
    ELSE LET d == deserializeObject(Head(elems), st, depth)
         IN IF d.st.err # "none" THEN d.st
            ELSE IF ~isSet THEN Fail(d.st, "TypeError")
            ELSE decodeValues(Tail(elems), idx, isSet,
                     [d.st EXCEPT !.objs[idx].items = SetAdd(@, d.val)], depth)

\* for (const [key, value] of jsonObject.entries) instance.set(...)
decodeEntries(elems, idx, isMap, st, depth) ==
    IF elems = <<>> \/ st.err # "none" THEN st
    ELSE IF Head(elems).t # "arr" THEN Fail(st, "TypeError")
    ELSE LET k == deserializeObject(Get(Head(elems), "0"), st, depth)
             v == deserializeObject(Get(Head(elems), "1"), k.st, depth)
         IN IF v.st.err # "none" THEN v.st
            ELSE IF ~isMap THEN Fail(v.st, "TypeError")
            ELSE decodeEntries(Tail(elems), idx, isMap,
                     [v.st EXCEPT !.objs[idx].entries = MapSet(@, k.val, v.val)],
                     depth)

deserializeObject(jsonObject, st, depth) ==
    IF st.err # "none" THEN [val |-> Undefined, st |-> st]
    ELSE IF depth > StackLimit
    THEN [val |-> Undefined, st |-> Fail(st, "RangeError")]
    ELSE IF jsonObject.t = "val" THEN [val |-> jsonObject.v, st |-> st]
    ELSE IF Truthy(Get(jsonObject, "__ref"))
    THEN [val |-> RefsGet(st.refs, Get(jsonObject, "__ref")),
          st |-> IF RefsHas(st.refs, Get(jsonObject, "__ref")) THEN st
                 ELSE [st EXCEPT !.miss = @ + 1]]
    ELSE
    LET className == Get(jsonObject, "__class")
        id == Get(jsonObject, "__id")
        idx == Len(st.objs) + 1
    IN
    IF Registered(className)
    THEN
      LET name == className.v.s
          slots == IF name = "Array" THEN "Array"
                   ELSE IF Truthy(Get(jsonObject, "__set")) THEN "Set"
                   ELSE IF Truthy(Get(jsonObject, "__map")) THEN "Map"
                   ELSE IF Truthy(Get(jsonObject, "__date")) THEN "Date"
                   ELSE "Object"
          shell == Obj(name, <<>>, <<>>, <<>>,
                       IF slots = "Date" THEN ParseDate(Get(jsonObject, "date"))
                       ELSE 0)
          st1 == [Alloc(st, shell) EXCEPT
                    !.refs = RefsSet(@, id, Ref(NewId(st)))]
          st2 == IF name = "Set"
                 THEN IF Get(jsonObject, "values").t # "arr"
                      THEN Fail(st1, "TypeError")
                      ELSE decodeValues(Get(jsonObject, "values").e, idx,
                                        slots = "Set", st1, depth + 1)
                 ELSE IF name = "Map"
                 THEN IF Get(jsonObject, "entries").t # "arr"
                      THEN Fail(st1, "TypeError")
                      ELSE decodeEntries(Get(jsonObject, "entries").e, idx,
                                         slots = "Map", st1, depth + 1)
                 ELSE decodeProps(FieldsOf(jsonObject), idx, TRUE, st1, depth + 1)
      IN [val |-> Ref(NewId(st)), st |-> st2]
    ELSE
      LET st1 == [Alloc(st, Obj("Object", <<>>, <<>>, <<>>, 0)) EXCEPT
                    !.refs = RefsSet(@, id, Ref(NewId(st)))]
          st2 == decodeProps(FieldsOf(jsonObject), idx, FALSE, st1, depth + 1)
      IN [val |-> Ref(NewId(st)), st |-> st2]

\* deserialize(json): JSON.parse, a fresh references table, deserializeObject
deserialize(json) ==
    LET d == deserializeObject(json, DecState0, 0)
    IN [status |-> IF d.st.err = "none" THEN "ok" ELSE d.st.err,
        val |-> IF d.st.err = "none" THEN d.val ELSE Undefined,
        objs |-> IF d.st.err = "none" THEN d.st.objs ELSE <<>>,
        miss |-> d.st.miss]

\* ----------------------------------------------------------------- copier
\* The copier's state: the seen table (identity -> copy), the objects it has
\* allocated (the i-th has identity Len(heap) + i) and the pending exception.
CopyState0 == [seen |-> <<>>, objs |-> <<>>, err |-> "none"]
Unlimited == 0 - 1

\* level === -1 ? -1 : level - 1
NextLevel(level) == IF level = Unlimited THEN Unlimited ELSE level - 1

RECURSIVE copyObject(_, _, _, _)
RECURSIVE copyItems(_, _, _, _, _)
RECURSIVE copyEntries(_, _, _, _, _)
RECURSIVE copyProps(_, _, _, _, _)

\* for (const item of instance) copy.add(...)
copyItems(items, idx, st, level, depth) ==
    IF items = <<>> \/ st.err # "none" THEN st
    ELSE LET c == copyObject(Head(items), st, NextLevel(level), depth)
         IN copyItems(Tail(items), idx,
                [c.st EXCEPT !.objs[idx].items = SetAdd(@, c.val)], level, depth)

\* for (const [key, value] of instance) copy.set(copiedKey, copiedValue)
copyEntries(entries, idx, st, level, depth) ==
    IF entries = <<>> \/ st.err # "none" THEN st
    ELSE LET k == copyObject(Head(entries)[1], st, NextLevel(level), depth)
             v == copyObject(Head(entries)[2], k.st, NextLevel(level), depth)
         IN copyEntries(Tail(entries), idx,
                [v.st EXCEPT !.objs[idx].entries = MapSet(@, k.val, v.val)],
                level, depth)

\* for (const key in instance) with the hasOwnProperty and typeof guards
copyProps(props, idx, st, level, depth) ==
    IF props = <<>> \/ st.err # "none" THEN st
    ELSE
    LET key == Head(props)[1] IN
    IF Read(st.objs[idx], key) # Undefined
    THEN copyProps(Tail(props), idx, st, level, depth)
    ELSE LET c == copyObject(Head(props)[2], st, NextLevel(level), depth)
         IN copyProps(Tail(props), idx,
                [c.st EXCEPT !.objs[idx].props = SetKey(@, key, c.val)],
                level, depth)

copyObject(instance, st, level, depth) ==
    IF st.err # "none" THEN [val |-> Undefined, st |-> st]
    ELSE IF depth > StackLimit
    THEN [val |-> Undefined, st |-> Fail(st, "RangeError")]
    ELSE IF ~isObject(instance) THEN [val |-> instance, st |-> st]
    ELSE
    LET o == instance.x IN
    IF SeenHas(st.seen, o) THEN [val |-> SeenGet(st.seen, o), st |-> st]
    ELSE IF level = 0 THEN [val |-> instance, st |-> st]
    ELSE
    LET src == heap[o]
        idx == Len(st.objs) + 1
        copy == Ref(Len(heap) + idx)
        shell == Obj(src.kind, <<>>, <<>>, <<>>,
                     IF src.kind = "Date" THEN src.time ELSE 0)
        st1 == [st EXCEPT !.objs = Append(@, shell),
                          !.seen = Append(@, <<o, copy>>)]
        st2 == IF src.kind = "Set"
               THEN copyItems(src.items, idx, st1, level, depth + 1)
               ELSE IF src.kind = "Map"
               THEN copyEntries(src.entries, idx, st1, level, depth + 1)
               ELSE copyProps(IndexProps(src.props) \o NamedProps(src.props),
                              idx, st1, level, depth + 1)
    IN [val |-> copy, st |-> st2]

\* deepCopy(instance, level): a fresh seen table, then copyObject
deepCopy(instance, level) ==
    LET c == copyObject(instance, CopyState0, level, 0)
    IN [status |-> IF c.st.err = "none" THEN "ok" ELSE c.st.err,
        level |-> level,
        val |-> IF c.st.err = "none" THEN c.val ELSE Undefined,
        objs |-> IF c.st.err = "none" THEN c.st.objs ELSE <<>>]

\* ------------------------------------------------------ the caller's graph
SlotValsOf(n) == {Undefined, Num(1)} \cup {Ref(o) : o \in 1..n}
SlotVals == SlotValsOf(MaxObjs)
SecondKeys == {"b", "incr", "toString"}

\* the object with up to two children s1, s2 (Undefined: no such child)
MkObj(kind, s1, s2, k2) ==
    LET present == (IF s1 = Undefined THEN <<>> ELSE <<s1>>)
                   \o (IF s2 = Undefined THEN <<>> ELSE <<s2>>)
    IN CASE kind = "Array" ->
              Obj(kind, [i \in 1..Len(present) |-> <<IndexNames[i], present[i]>>],
                  <<>>, <<>>, 0)
         [] kind = "Set" ->
              Obj(kind, <<>>,
                  IF Len(present) = 2 /\ present[1] = present[2]
                  THEN <<present[1]>> ELSE present,
                  <<>>, 0)
         [] kind = "Map" ->
              Obj(kind, <<>>, <<>>,
                  IF Len(present) = 2 THEN << <<s1, s2>> >>
                  ELSE IF Len(present) = 1
                  THEN << <<Str("self", -1), present[1]>> >>
                  ELSE <<>>,
                  0)
         [] kind = "Date" -> Obj(kind, <<>>, <<>>, <<>>, Len(present))
         [] OTHER ->
              Obj(kind,
                  (IF s1 = Undefined THEN <<>> ELSE << <<"a", s1>> >>)
                  \o (IF s2 = Undefined THEN <<>> ELSE << <<k2, s2>> >>),
                  <<>>, <<>>, 0)

NoText == [status |-> "none", json |-> Leaf(Undefined)]
NoResult == [status |-> "none", val |-> Undefined, objs |-> <<>>, miss |-> 0]
NoCopy == [status |-> "none", level |-> 0, val |-> Undefined, objs |-> <<>>]

\* the registry after start-up: the built-ins and the user's classes
Idle ==
    /\ classMap = BuiltIns \cup UserClasses
    /\ text = NoText
    /\ trace = <<>>
    /\ result = NoResult
    /\ copied = NoCopy

Init ==
    /\ \E kinds \in [Objs -> Kinds], s1 \in [Objs -> SlotVals],
          s2 \in SlotVals, k2 \in SecondKeys :
          heap = [o \in Objs |->
                    MkObj(kinds[o], s1[o], IF o = 1 THEN s2 ELSE Undefined, k2)]
    /\ Idle

\* a map that contains itself as a value
SelfMap ==
    /\ heap[1].kind = "Map"
    /\ \E i \in 1..Len(heap[1].entries) : heap[1].entries[i][2] = root

InitCycle == Init /\ SelfMap

\* a root with an own property named like a member of its prototype chain
Shadowing ==
    \E i \in 1..Len(heap[1].props) :
        ProtoMember(heap[1].kind, heap[1].props[i][1]) # Undefined

InitShadow == Init /\ Shadowing

\* graphs of plain records only, one more object and one more level
InitDepth ==
    /\ \E s1 \in [1..DepthObjs -> SlotValsOf(DepthObjs)],
          s2 \in SlotValsOf(DepthObjs) :
          heap = [o \in 1..DepthObjs |->
                    MkObj("Object", s1[o], IF o = 1 THEN s2 ELSE Undefined, "b")]
    /\ Idle

\* ------------------------------------------------- handwritten payloads
\* JSON text that did not come from this process's serialize: nodes with a
\* type tag the registry does not know ("Zed") or none at all (""), and
\* back-references to ids registered earlier, later or never.
PTags == {"", "Zed", "ClassA", "Array", "Set", "Map", "Date"}
RefNode(k) == JObj(<< <<"__ref", Leaf(Str("id", k))>> >>)
PLeaves == {Leaf(Undefined), Leaf(Num(1))} \cup {RefNode(k) : k \in 0..MaxRefId}

MkNode(tag, k, c1, c2) ==
    LET present == (IF c1 = Leaf(Undefined) THEN <<>> ELSE <<c1>>)
                   \o (IF c2 = Leaf(Undefined) THEN <<>> ELSE <<c2>>)
        meta == IF tag = "" THEN <<>>
                ELSE << <<"__class", Leaf(Str(tag, -1))>>,
                        <<"__id", Leaf(Str("id", k))>> >>
    IN CASE tag = "Array" ->
              JObj([i \in 1..Len(present) |-> <<IndexNames[i], present[i]>>]
                   \o meta)
         [] tag = "Set" ->
              JObj(meta \o << <<"values", JArr(present)>>,
                              <<"__set", Leaf(Bool(TRUE))>> >>)
         [] tag = "Map" ->
              JObj(meta \o
                   << <<"entries",
                        JArr(IF Len(present) = 2 THEN <<JArr(present)>>
                             ELSE IF Len(present) = 1
                             THEN <<JArr(<<Leaf(Str("self", -1)), present[1]>>)>>
                             ELSE <<>>)>>,
                      <<"__map", Leaf(Bool(TRUE))>> >>)
         [] tag = "Date" ->
              JObj(meta \o << <<"__date", Leaf(Bool(TRUE))>>,
                              <<"date", Leaf(Str("ISO", Len(present)))>> >>)
         [] OTHER ->
              JObj(meta
                   \o (IF c1 = Leaf(Undefined) THEN <<>> ELSE << <<"a", c1>> >>)
                   \o (IF c2 = Leaf(Undefined) THEN <<>> ELSE << <<"b", c2>> >>))

Inner(k) == {MkNode(tag, k, c, Leaf(Undefined)) : tag \in PTags, c \in PLeaves}
Payloads ==
    {MkNode(tag, 0, c1, c2) :
        tag \in PTags, c1 \in PLeaves \cup Inner(1), c2 \in PLeaves \cup Inner(2)}

InitDecode ==
    /\ heap = <<>>
    /\ classMap = BuiltIns \cup UserClasses
    /\ \E json \in Payloads : text = [status |-> "ok", json |-> json]
    /\ trace = <<>>
    /\ result = NoResult
    /\ copied = NoCopy

\* ---------------------------------------------------------------- actions
\* faulty variant: keeps the id on the object itself instead of in seen
Serialize_tagging ==
    /\ text.status = "none"
    /\ LET r == serialize(root)
       IN /\ text' = [status |-> r.status, json |-> r.json]
          /\ trace' = r.log
    /\ heap' = [heap EXCEPT ![1].props =
                   SetKey(@, "__id", Str(getClassName(heap[1].kind), 0))]
    /\ UNCHANGED <<classMap, result, copied>>
Serialize ==
    /\ text.status = "none"
    /\ LET r == serialize(root)
       IN /\ text' = [status |-> r.status, json |-> r.json]
          /\ trace' = r.log
    /\ UNCHANGED <<heap, classMap, result, copied>>

Deserialize ==
    /\ text.status = "ok"
    /\ result.status = "none"
    /\ result' = deserialize(text.json)
    /\ UNCHANGED <<heap, classMap, text, trace, copied>>

DeepCopy(level) ==
    /\ copied.status = "none"
    /\ copied' = deepCopy(root, level)
    /\ UNCHANGED <<heap, classMap, text, trace, result>>

Levels == {Unlimited} \cup 0..MaxLevel

Next == Serialize \/ Deserialize
NextCopy == \E level \in Levels : DeepCopy(level)
NextAll == Serialize \/ Deserialize \/ \E level \in Levels : DeepCopy(level)
\* one call per run: a serialize with its deserialize, or one deepCopy
NextCall ==
    \/ copied.status = "none" /\ Serialize
    \/ copied.status = "none" /\ Deserialize
    \/ text.status = "none" /\ \E level \in Levels : DeepCopy(level)
NextDepth == \E level \in 0..DepthLevel : DeepCopy(level)
NextDecode == Deserialize

\* serialize and deserialize on the caller's graphs
Spec == Init /\ [][Next]_vars
\* deepCopy on the caller's graphs
SpecCopy == Init /\ [][NextCopy]_vars
\* all three on the maps that contain themselves
SpecCycle == InitCycle /\ [][NextAll]_vars
\* one call on the graphs whose root shadows an inherited member
SpecShadow == InitShadow /\ [][NextCall]_vars
\* deepCopy to a finite depth on graphs of plain records
SpecDepth == InitDepth /\ [][NextDepth]_vars
\* deserialize on handwritten payloads
SpecDecode == InitDecode /\ [][NextDecode]_vars

\* ------------------------------------------------------------ comparison
\* the object a reference of a result denotes: one of the caller's, or the
\* i-th object the traversal allocated
HeapAt(objs, id) == IF id <= Len(heap) THEN heap[id] ELSE objs[id - Len(heap)]

IsNew(v) == isObject(v) /\ v.x > Len(heap)

\* the values an object holds, in traversal order
Children(obj) ==
    [i \in 1..Len(obj.props) |-> obj.props[i][2]]
    \o obj.items
    \o [i \in 1..(2 * Len(obj.entries)) |->
          obj.entries[(i + 1) \div 2][2 - (i % 2)]]

Keys(props) == [i \in 1..Len(props) |-> props[i][1]]

RECURSIVE Assigned(_, _)
\* the own properties of a source object that the skip-if-defined guard of
\* a populate loop lets through
Assigned(kind, props) ==
    IF props = <<>> THEN <<>>
    ELSE IF ProtoMember(kind, Head(props)[1]) # Undefined
    THEN Assigned(kind, Tail(props))
    ELSE <<Head(props)>> \o Assigned(kind, Tail(props))

Pairing0 == [map |-> <<>>, ok |-> TRUE]

RECURSIVE Match(_, _, _, _, _)
RECURSIVE MatchList(_, _, _, _, _)

MatchList(vs, ws, objs, m, skip) ==
    IF vs = <<>> \/ ~m.ok THEN m
    ELSE MatchList(Tail(vs), Tail(ws), objs,
                   Match(Head(vs), Head(ws), objs, m, skip), skip)

\* Walks the source value v and the result value w side by side and pairs
\* the objects met: ok as long as every pair has the same kind, instant, own
\* property names and element counts, and the pairing is one-to-one (the
\* same sharing).  With skip, the source properties the guard drops are not
\* expected in the result.
Match(v, w, objs, m, skip) ==
    IF ~m.ok THEN m
    ELSE IF ~isObject(v) THEN [m EXCEPT !.ok = (v = w)]
    ELSE IF ~isObject(w) THEN [m EXCEPT !.ok = FALSE]
    ELSE IF \E i \in 1..Len(m.map) : m.map[i][1] = v.x
    THEN [m EXCEPT !.ok = \E i \in 1..Len(m.map) : m.map[i] = <<v.x, w.x>>]
    ELSE IF \E i \in 1..Len(m.map) : m.map[i][2] = w.x
    THEN [m EXCEPT !.ok = FALSE]
    ELSE
    LET a == [heap[v.x] EXCEPT !.props =
                 IF skip THEN Assigned(heap[v.x].kind, @) ELSE @]
        b == HeapAt(objs, w.x)
    IN IF \/ a.kind # b.kind \/ a.time # b.time
          \/ Keys(a.props) # Keys(b.props)
          \/ Len(a.items) # Len(b.items)
          \/ Len(a.entries) # Len(b.entries)
       THEN [m EXCEPT !.ok = FALSE]
       ELSE MatchList(Children(a), Children(b), objs,
                      [m EXCEPT !.map = Append(@, <<v.x, w.x>>)], skip)

\* structurally equivalent, sharing included
Equivalent(v, w, objs) == Match(v, w, objs, Pairing0, FALSE).ok
EquivalentButSkipped(v, w, objs) == Match(v, w, objs, Pairing0, TRUE).ok

\* no value held by the allocated objects is one of the caller's objects
AllNew(val, objs) ==
    /\ IsNew(val)
    /\ \A i \in 1..Len(objs) : \A j \in 1..Len(Children(objs[i])) :
          isObject(Children(objs[i])[j]) => IsNew(Children(objs[i])[j])

Count(log, ev, o) == Cardinality({i \in 1..Len(log) : log[i] = <<ev, o>>})

\* ================================================================ claims

\* C1: round trip: deserialize(serialize(v)) is structurally equivalent to
\* v, for every graph v: same kind per node, same own properties and
\* elements, same sharing.
C1_RoundTrip ==
    result.status # "none" =>
        /\ result.status = "ok"
        /\ Equivalent(root, result.val, result.objs)

\* C2: when the properties a and b of a tagged instance hold the same
\* object, of any kind, then after deserialize(serialize(p)) result.a and
\* result.b are one and the same object.
SharedCase ==
    /\ heap[1].kind \in UserClasses
    /\ Keys(heap[1].props) = <<"a", "b">>
    /\ isObject(GetKey(heap[1].props, "a"))
    /\ GetKey(heap[1].props, "a") = GetKey(heap[1].props, "b")

C2_SharedSurvives ==
    (SharedCase /\ result.status # "none") =>
        /\ result.status = "ok"
        /\ isObject(result.val)
        /\ LET r == HeapAt(result.objs, result.val.x)
           IN /\ isObject(GetKey(r.props, "a"))
              /\ GetKey(r.props, "a") = GetKey(r.props, "b")

\* C3 as stated: deepCopy(v, -1) shares no object with v, is structurally
\* equal to v and has v's sharing, for every graph v.
C3_FullCopyIsolation ==
    (copied.status # "none" /\ copied.level = Unlimited) =>
        /\ copied.status = "ok"
        /\ AllNew(copied.val, copied.objs)
        /\ Equivalent(root, copied.val, copied.objs)

\* C3 as amended: deepCopy(v, -1) shares no object with v, has v's sharing,
\* and is structurally equal to v except that an own property whose name
\* the fresh shell already yields a value for is not copied.
C3_FullCopyButSkipped ==
    (copied.status # "none" /\ copied.level = Unlimited) =>
        /\ copied.status = "ok"
        /\ AllNew(copied.val, copied.objs)
        /\ EquivalentButSkipped(root, copied.val, copied.objs)

\* a full copy of a graph with a shared object that points back at the root
C3_Witness ==
    /\ copied.status = "ok" /\ copied.level = Unlimited
    /\ Len(heap[1].props) = 2
    /\ heap[1].props[1][2] = Ref(2) /\ heap[1].props[2][2] = Ref(2)
    /\ Children(heap[2]) = <<root>>
    /\ Len(copied.objs) = 2

\* C4: copy(v, 0) is a new top-level shell of v's kind, not v itself, whose
\* immediate children are v's children by reference.
C4_DepthZeroShell ==
    (copied.status # "none" /\ copied.level = 0) =>
        /\ copied.status = "ok"
        /\ IsNew(copied.val)
        /\ HeapAt(copied.objs, copied.val.x).kind = heap[1].kind
        /\ Children(HeapAt(copied.objs, copied.val.x))
             = Children([heap[1] EXCEPT !.props = Assigned(heap[1].kind, @)])

\* C5: for a map m with m.set(key, m), serialize then deserialize, and
\* deepCopy(m), each terminate with one new map whose entry holds that new
\* map itself.
PlainKeys ==
    \A i \in 1..Len(heap[1].entries) : ~isObject(heap[1].entries[i][1])

SelfOnce(val, objs) ==
    /\ IsNew(val)
    /\ LET r == HeapAt(objs, val.x)
       IN /\ r.kind = "Map"
          /\ Len(r.entries) = Len(heap[1].entries)
          /\ \A i \in 1..Len(r.entries) :
                heap[1].entries[i][2] = root => r.entries[i][2] = val
          /\ \A i \in 1..Len(objs) :
                (objs[i].kind = "Map" /\ PlainKeys) => Ref(Len(heap) + i) = val

C5_CycleTerminates ==
    SelfMap =>
        /\ text.status # "RangeError"
        /\ PlainKeys => text.status \in {"none", "ok"}
        /\ result.status # "none" =>
              result.status = "ok" /\ SelfOnce(result.val, result.objs)
        /\ (copied.status # "none" /\ copied.level = Unlimited) =>
              copied.status = "ok" /\ SelfOnce(copied.val, copied.objs)

C5_Witness ==
    /\ heap[1].entries = << <<Str("self", -1), root>> >>
    /\ result.status = "ok"
    /\ copied.status = "ok" /\ copied.level = Unlimited

\* C6: serialize terminates and returns text for every graph, however
\* cyclic, plain records included.
C6_SerializeReturnsText == text.status \in {"none", "ok"}

\* C7: a back-reference whose id is not in the references table makes the
\* whole deserialize call fail with DanglingReferenceError.
C7_DanglingFails ==
    (result.status # "none" /\ result.miss > 0) =>
        result.status = "DanglingReferenceError"

\* C8: a node whose type tag is not registered, or that has none, decodes
\* without an exception to a fresh plain record with the node's own
\* properties, each decoded recursively, less the type tag and the id.
TagKnown(tree) ==
    /\ Get(tree, "__class").t = "val" /\ Get(tree, "__class").v.t = "str"
    /\ Get(tree, "__class").v.x = 0 - 1
    /\ Get(tree, "__class").v.s \in classMap

UnknownKind(tree) ==
    /\ tree.t \in {"obj", "arr"}
    /\ ~Truthy(Get(tree, "__ref"))
    /\ ~TagKnown(tree)

Payload(tree) == SeqFilterKeys(FieldsOf(tree), {"__class", "__id"})

RECURSIVE DecodesTo(_, _, _)
DecodesTo(tree, val, objs) ==
    IF tree.t = "val" THEN val = tree.v
    ELSE IF Truthy(Get(tree, "__ref")) THEN TRUE
    ELSE
    /\ IsNew(val)
    /\ LET r == HeapAt(objs, val.x)
       IN IF UnknownKind(tree)
          THEN /\ r.kind = "Object" /\ r.items = <<>> /\ r.entries = <<>>
               /\ Keys(r.props) = Keys(Payload(tree))
               /\ \A i \in 1..Len(r.props) :
                     DecodesTo(Payload(tree)[i][2], r.props[i][2], objs)
          ELSE /\ r.kind = Get(tree, "__class").v.s
               /\ \A i \in 1..Len(Payload(tree)) :
                     HasKey(r.props, Payload(tree)[i][1]) =>
                        DecodesTo(Payload(tree)[i][2],
                                  GetKey(r.props, Payload(tree)[i][1]), objs)
               /\ (r.kind = "Set" /\ Len(r.items) = Len(Get(tree, "values").e)) =>
                     \A i \in 1..Len(r.items) :
                        DecodesTo(Get(tree, "values").e[i], r.items[i], objs)

\* the values of a node that deserializeObject goes on to decode
Decoded(tree) ==
    IF TagKnown(tree) /\ Get(tree, "__class").v.s = "Set"
    THEN Get(tree, "values").e
    ELSE IF TagKnown(tree) /\ Get(tree, "__class").v.s = "Map"
    THEN LET es == Get(tree, "entries").e
         IN [i \in 1..(2 * Len(es)) |-> es[(i + 1) \div 2].e[2 - (i % 2)]]
    ELSE [i \in 1..Len(Payload(tree)) |-> Payload(tree)[i][2]]

RECURSIVE NodeCount(_)
RECURSIVE NodeCountList(_)
NodeCountList(trees) ==
    IF trees = <<>> THEN 0
    ELSE NodeCount(Head(trees)) + NodeCountList(Tail(trees))

\* the nodes of a payload that are neither leaves nor back-references
NodeCount(tree) ==
    IF tree.t = "val" \/ Truthy(Get(tree, "__ref")) THEN 0
    ELSE 1 + NodeCountList(Decoded(tree))

HasUnknown(tree) ==
    \/ UnknownKind(tree)
    \/ \E i \in 1..Len(FieldsOf(tree)) : UnknownKind(FieldsOf(tree)[i][2])

C8_UnknownKindDecodes ==
    (result.status # "none" /\ HasUnknown(text.json)) =>
        /\ result.status = "ok"
        /\ DecodesTo(text.json, result.val, result.objs)
        /\ Len(result.objs) = NodeCount(text.json)

C8_Witness ==
    /\ result.status = "ok"
    /\ Get(text.json, "__class") = Leaf(Str("Zed", -1))
    /\ UnknownKind(Get(text.json, "a")) /\ Get(text.json, "b") = Leaf(Num(1))
    /\ Len(result.objs) = 2

\* C9: within one serialize call every object gets an id at most once and
\* is written out in full at most once; every other encounter is a
\* back-reference.
C9_EncodedOnce ==
    \A o \in DOMAIN heap :
        /\ Count(trace, "id", o) <= 1
        /\ Count(trace, "node", o) + Count(trace, "raw", o) <= 1

\* C10: for depth d > 0, every object on a path of fewer than d hops from
\* root is a new object at that path of copy(root, d); only what lies d hops
\* away is shared with the original.
RECURSIVE DetachedTo(_, _, _, _)
DetachedTo(v, w, objs, d) ==
    IF ~isObject(v) THEN w = v
    ELSE IF d = 0 THEN TRUE
    ELSE /\ IsNew(w)
         /\ LET a == Children(heap[v.x])
                b == Children(HeapAt(objs, w.x))
            IN /\ Len(a) = Len(b)
               /\ \A i \in 1..Len(a) : DetachedTo(a[i], b[i], objs, d - 1)

C10_DetachedToDepth ==
    (copied.status # "none" /\ copied.level > 0) =>
        /\ copied.status = "ok"
        /\ DetachedTo(root, copied.val, copied.objs, copied.level)

\* The marks of an output in pre-order: one <<"node", class, id>> for each
\* encoded node and one <<"ref", undefined, id>> for each back-reference.
RECURSIVE Marks(_)
RECURSIVE MarksList(_)
MarksList(trees) ==
    IF trees = <<>> THEN <<>>
    ELSE Marks(Head(trees)) \o MarksList(Tail(trees))

Marks(tree) ==
    LET fs == FieldsOf(tree)
        below == MarksList([i \in 1..Len(fs) |-> fs[i][2]])
        node == <<"node", Get(tree, "__class").v, Get(tree, "__id").v>>
        ref == <<"ref", Undefined, Get(tree, "__ref").v>>
    IN IF tree.t = "val" THEN <<>>
       ELSE IF tree.t = "obj" /\ Truthy(Get(tree, "__ref")) THEN <<ref>>
       ELSE IF tree.t = "obj" /\ HasKey(fs, "__id") THEN <<node>> \o below
       ELSE below

Only(marks, ev) == SelectSeq(marks, LAMBDA m : m[1] = ev)

\* the objects in the order they were entered into the visited table
Entered == SelectSeq(trace, LAMBDA e : e[1] = "id")

\* the entries of the visited table that were written out as encoded nodes,
\* each with the size the table had when the object was entered
EncodedAt ==
    SelectSeq([i \in 1..Len(Entered) |-> <<Entered[i][2], i - 1>>],
              LAMBDA p : Count(trace, "node", p[1]) > 0)

\* C11: in the output of one serialize call no two encoded nodes carry the
\* same id; each id is the kind name and the size the visited table had
\* when the object was entered, so the numbers strictly increase in
\* pre-order.
C11_IdsUnique ==
    text.status = "ok" =>
        LET ns == Only(Marks(text.json), "node") IN
        /\ \A i, j \in 1..Len(ns) : i < j => ns[i][3].x < ns[j][3].x
        /\ Len(ns) = Len(EncodedAt)
        /\ \A i \in 1..Len(ns) :
              /\ ns[i][2] = Str(getClassName(heap[EncodedAt[i][1]].kind), -1)
              /\ ns[i][3] = Str(ns[i][2].s, EncodedAt[i][2])

C11_Witness ==
    /\ text.status = "ok"
    /\ Len(Only(Marks(text.json), "node")) = 2
    /\ Len(Only(Marks(text.json), "ref")) > 0

\* C12: in the output of serialize every back-reference names the id of an
\* encoded node that comes earlier in pre-order; a value with no registered
\* class is written unchanged and is given no id; and
\* deserialize(serialize(v)) never looks up an id its references lack.
C12_RefsWellFormed ==
    /\ text.status = "ok" =>
          LET ms == Marks(text.json) IN
          \A j \in 1..Len(ms) :
              ms[j][1] = "ref" =>
                  \E i \in 1..(j - 1) : ms[i][1] = "node" /\ ms[i][3] = ms[j][3]
    /\ \A o \in DOMAIN heap :
          Count(trace, "raw", o) > 0 => Count(trace, "id", o) = 0
    /\ result.status # "none" => result.miss = 0

\* an object with an own property named like a member its prototype chain
\* supplies
Shadows(obj) ==
    \E i \in 1..Len(obj.props) :
        ProtoMember(obj.kind, obj.props[i][1]) # Undefined

\* the property names of the root node that its decoded object holds: under
\* a registered class those the fresh shell yields nothing for, without
\* one all of them
DecodeKept ==
    IF ~TagKnown(text.json) THEN Keys(Payload(text.json))
    ELSE IF Get(text.json, "__class").v.s \in {"Set", "Map"} THEN <<>>
    ELSE Keys(Assigned(Get(text.json, "__class").v.s, Payload(text.json)))

\* the property names of the root that its copy holds
CopyKept ==
    IF heap[1].kind \in {"Set", "Map"} THEN <<>>
    ELSE Keys(Assigned(heap[1].kind,
                       IndexProps(heap[1].props) \o NamedProps(heap[1].props)))

\* C13 as stated: wherever deserialize or deepCopy populates an array, a
\* class instance or a plain record, a property is assigned only if the
\* shell yields nothing for its name; otherwise the shell's own or
\* inherited value stays and the incoming value is dropped.
C13_SkipEverywhere ==
    /\ result.status = "ok" =>
          \A i \in 1..Len(result.objs) : ~Shadows(result.objs[i])
    /\ (copied.status = "ok" /\ copied.level # 0) =>
          \A i \in 1..Len(copied.objs) : ~Shadows(copied.objs[i])

\* C13, amended: the rule holds where deserialize populates the shell of a
\* registered class and wherever deepCopy populates a copy; a node without
\* a registered class is decoded into a record that takes every property.
C13_SkipIfDefined ==
    /\ result.status = "ok" =>
          /\ \A i \in 1..Len(result.objs) :
                result.objs[i].kind # "Object" => ~Shadows(result.objs[i])
          /\ Keys(result.objs[1].props) = DecodeKept
    /\ (copied.status = "ok" /\ copied.level # 0) =>
          /\ \A i \in 1..Len(copied.objs) : ~Shadows(copied.objs[i])
          /\ Keys(copied.objs[1].props) = CopyKept

C13_Witness ==
    /\ result.status = "ok"
    /\ TagKnown(text.json)
    /\ HasKey(Payload(text.json), "incr")
    /\ HasKey(result.objs[1].props, "a")
    /\ ~HasKey(result.objs[1].props, "incr")

\* The occurrences met when a source graph and a result are walked side by
\* side in traversal order: <<source object, object at that place of the
\* result, levels left at that place>>.
RECURSIVE Images(_, _, _, _, _)
RECURSIVE ImagesList(_, _, _, _, _)
ImagesList(vs, ws, objs, level, acc) ==
    IF vs = <<>> THEN acc
    ELSE ImagesList(Tail(vs), Tail(ws), objs, level,
                    Images(Head(vs), Head(ws), objs, level, acc))

Images(v, w, objs, level, acc) ==
    IF ~isObject(v) \/ ~isObject(w) THEN acc
    ELSE IF \E i \in 1..Len(acc) : acc[i] = <<v.x, w.x, level>> THEN acc
    ELSE LET a == Children(heap[v.x])
             b == Children(HeapAt(objs, w.x))
             below == IF level = 0 THEN 0 ELSE NextLevel(level)
             acc1 == Append(acc, <<v.x, w.x, level>>)
         IN IF Len(a) # Len(b) THEN acc1
            ELSE ImagesList(a, b, objs, below, acc1)

\* C14: within one deepCopy call every occurrence of a source object is
\* replaced by the same result object: no source object is in the result
\* both as itself and as a copy, and a copy made with fewer levels left is
\* not reused where more levels remain.
C14_SingleImage ==
    copied.status = "ok" =>
        LET im == Images(root, copied.val, copied.objs, copied.level, <<>>)
        IN \A i, j \in 1..Len(im) :
               (i < j /\ im[i][1] = im[j][1]) =>
                   /\ im[i][2] = im[j][2]
                   /\ im[i][2] > Len(heap) => im[j][3] <= im[i][3]

\* C15: decoding a Date node yields a Date of the encoded instant with no
\* own property taken from the node's fields, so a round-tripped Date has
\* the own properties of its source.
C15_TimestampDecode ==
    result.status = "ok" =>
        /\ \A i \in 1..Len(result.objs) :
              result.objs[i].kind = "Date" => result.objs[i].props = <<>>
        /\ heap[1].kind = "Date" => result.objs[1] = heap[1]

====
